---- MODULE Spec2Model ----
(***************************************************************************)
(* Model of package xz (xi2.org/x/xz): the Reader of reader.go, that is    *)
(* NewReader, Reader.decode, Reader.Read, Reader.Multistream and           *)
(* Reader.Reset, on top of the stream decoder xzDecRun / xzDecReset.       *)
(*                                                                         *)
(* The Reader is translated statement by statement from reader.go.  The    *)
(* stream decoder (dec_stream.go, dec_lzma2.go) is not among the sources:  *)
(* it is modelled from its contract (the xzRet and xzBuf documentation in  *)
(* dec_xz.go and sections 4.4, 5 and 7 of the specification) over an       *)
(* abstract container format in which one symbol stands for one record of  *)
(* the XZ format (stream header, literal, match, footer, ...).             *)
(***************************************************************************)
EXTENDS Integers, Sequences, FiniteSets, TLC

\* ------------------------------------------------------------------------
\* Bounds of the model

\* bufSize is 1 << 13 in reader.go; the model runs the same code with small
\* buffers so that refills and a full output buffer happen on short inputs.
bufSize == 3
\* longest upstream content, in symbols
MaxLen == 7
\* most streams in an upstream content
MaxStreams == 3
\* longest run of stream padding in an upstream content
MaxPad == 4
\* largest len(p) passed to Read
MaxP == 2
\* upstream reads that return (0, nil), over a whole behaviour
MaxStall == 1
\* upstream reads that return a non-EOF error, over a whole behaviour
MaxUpErr == 1
\* longest upstream content on which the upstream stalls or fails
NoisyLen == 4
StepLen == 3
\* the Delta decoder on its own: the bytes of one raw stream, of which the
\* first FreeLen are free and the first SplitLen are split freely into
\* calls; the size of its output buffer
MaxDeltaLen == 258
FreeLen == 2
SplitLen == 6
DeltaBufSize == 3
\* the range coder on its own: the number of decodes, of which the first
\* FreeBits and those from TailEnd on are free
MaxBits == 131
FreeBits == 4
TailEnd == 128
\* largest small dictMax given to NewReader when NewReader alone is checked
MaxDictArg == 60

\* ------------------------------------------------------------------------
\* Program constants

DefaultDictMax == 67108864

\* xzRet (dec_xz.go)
xzOK == "xzOK"
xzStreamEnd == "xzStreamEnd"
xzUnsupportedCheck == "xzUnsupportedCheck"
xzMemlimitError == "xzMemlimitError"
xzFormatError == "xzFormatError"
xzOptionsError == "xzOptionsError"
xzDataError == "xzDataError"
xzBufError == "xzBufError"

\* error values of reader.go, io.EOF, nil, and an error of the upstream
nil == "nil"
EOF == "io.EOF"
ErrUnsupportedCheck == "ErrUnsupportedCheck"
ErrMemlimit == "ErrMemlimit"
ErrFormat == "ErrFormat"
ErrOptions == "ErrOptions"
ErrData == "ErrData"
ErrBuf == "ErrBuf"
ErrNilReader == "ErrNilReader"
errUpstream == "errUpstream"

DecoderErrors ==
  {ErrUnsupportedCheck, ErrMemlimit, ErrFormat, ErrOptions, ErrData, ErrBuf}

\* ------------------------------------------------------------------------
\* The abstract container format.  A symbol is a natural number; 0 is the
\* zero byte, every other symbol is a non-zero first byte of a record.

Zero == 0
\* a well-formed stream header with a supported check type
HDR == 1
\* a well-formed index and stream footer
FTR == 2
\* a byte that fits no record
BAD == 3
\* a well-formed stream header naming an unsupported check type
HUC == 4
\* a block header declaring a dictionary of DictBig bytes
BMEM == 5
\* a block header naming an unsupported filter chain
BOPT == 6
\* a match: decodes to the bytes of RunOut
RUN == 7
\* a block header whose filter chain is Delta (distance 1) then LZMA2
BDELTA == 8
\* a literal: decodes to itself
LitA == 10

RunOut == <<21, 22, 23>>
DictBig == 2 * DefaultDictMax
\* the values of dictMax given to NewReader
DictMaxes == {0, DictBig}

Min(a, b) == IF a < b THEN a ELSE b

Zeros(k) == [i \in 1..k |-> Zero]
Stream(payload) == <<HDR>> \o payload \o <<FTR>>
Payloads == {<< >>, <<LitA>>, <<LitA, RUN>>}
Prefix(s, k) == SubSeq(s, 1, Min(k, Len(s)))

\* one stream followed by its stream padding
Units == {Stream(pl) \o Zeros(z) : pl \in Payloads, z \in 0..MaxPad}

RECURSIVE Bodies(_)
Bodies(k) ==
  IF k = 0 THEN {<< >>}
  ELSE LET prev == Bodies(k - 1)
       IN  prev \cup {b \o u : b \in {x \in prev : Len(x) < MaxLen}, u \in Units}

\* the upstream contents: streams with padding, whole or cut anywhere
\* (truncated), possibly followed by a byte that fits no record; and one
\* stream, whole or cut, followed by a header that is refused, or by a
\* stream with a block that declares a large dictionary or names the Delta
\* filter, or by a block that names the Delta filter
SpecialTails ==
  {<<HUC>>, <<BMEM>>, <<BOPT>>, <<HDR, BMEM, LitA, FTR>>,
   <<HDR, BDELTA, LitA, LitA, FTR>>, <<HDR, BDELTA, LitA, RUN, FTR>>,
   <<BDELTA, LitA>>}

Files ==
  {f \in {Prefix(b, c) \o t :
             b \in Bodies(MaxStreams), c \in 0..MaxLen, t \in {<< >>, <<BAD>>}}
          \cup {Prefix(b, c) \o t :
             b \in Bodies(1), c \in 0..MaxLen, t \in SpecialTails} :
      Len(f) <= MaxLen}

\* ------------------------------------------------------------------------
\* State

VARIABLES
  r,        \* the Reader: its fields, with buf (xzBuf) and dec (xzDec) inlined
  file,     \* everything the wrapped io.Reader will ever deliver
  up,       \* the wrapped io.Reader: bytes delivered so far, and what it did
  last,     \* the last call on the Reader and what it returned
  delivered,  \* every byte Read has copied into a caller's p, in order
  produced,   \* every byte xzDecRun has written to buf.out, in order
  returnedErr,  \* the first decoder error a Read has returned, or nil
  sinceErr,   \* Reads returned since that one, itself included, up to 2
  hist,       \* how Multistream and Reset have been used so far
  call        \* the Read in progress, when Read is followed step by step

vars == <<r, file, up, last, delivered, produced, returnedErr, sinceErr, hist,
          call>>

\* ------------------------------------------------------------------------
\* The stream decoder (dec_stream.go), from its contract

\* xzDecDeltaCreate
xzDecDeltaCreate(distance) ==
  [delta |-> [i \in 0..255 |-> 0], pos |-> 0, distance |-> distance]

\* a loop body that keeps the raw byte as history
DeltaStep_StoreRaw(s, c) ==
  LET tmp == (c + s.delta[(s.distance + s.pos) % 256]) % 256
  IN  [s |-> [s EXCEPT !.delta[s.pos] = c, !.pos = (@ - 1) % 256],
       tmp |-> tmp]

\* xzDecDeltaRun, the body of the loop for b.out[i] = c: byte arithmetic
DeltaStep(s, c) ==
  LET tmp == (c + s.delta[(s.distance + s.pos) % 256]) % 256
  IN  [s |-> [s EXCEPT !.delta[s.pos] = tmp, !.pos = (@ - 1) % 256],
       tmp |-> tmp]

\* xzDecInit: a decoder waiting for a stream header.  filter tells that the
\* block being decoded has the Delta filter in front of LZMA2, delta is the
\* xzDecDelta of that filter.
xzDecInit(dictMax) ==
  [sequence |-> "seqStreamHeader", pend |-> 0, allowBufError |-> FALSE,
   dictMax |-> dictMax, filter |-> FALSE, delta |-> xzDecDeltaCreate(1)]

\* xzDecReset: back to the start of a stream; the dictionary cap is kept
xzDecReset(dec) ==
  [dec EXCEPT !.sequence = "seqStreamHeader", !.pend = 0,
              !.allowBufError = FALSE, !.filter = FALSE,
              !.delta = xzDecDeltaCreate(1)]

\* A block header whose filter chain names the Delta filter (idDelta) in
\* front of LZMA2: the header is accepted and the block is decoded through a
\* Delta decoder, as TestGoodFiles requires of good-1-3delta-lzma2.xz and
\* good-1-delta-lzma2.tiff.xz (Read ends with io.EOF, the plaintext is
\* delivered).  The header of the model names the distance 1.
idDeltaHeader(dec) ==
  [dec |-> [dec EXCEPT !.filter = TRUE, !.delta = xzDecDeltaCreate(1)],
   ret |-> xzOK]

\* the decoder writes the byte c of the LZMA2 output: the byte that is put
\* in the output buffer once xzDecDeltaRun has gone over it, and the decoder
\* after it
WriteByte(dec, c) ==
  IF dec.filter
    THEN LET x == DeltaStep(dec.delta, c)
         IN  [dec |-> [dec EXCEPT !.delta = x.s], b |-> x.tmp]
    ELSE [dec |-> dec, b |-> c]

\* decMain: consume records until the input is used up, the output is full
\* or a terminal status is reached.  m is [dec, buf]; the result adds ret.
RECURSIVE decMain(_)
decMain(m) ==
  LET Ret(x, ret) == [dec |-> x.dec, buf |-> x.buf, ret |-> ret]
  IN
  IF m.dec.pend > 0 THEN
    \* a match is being copied out: yield when the output is full
    IF m.buf.outPos = Len(m.buf.out) THEN Ret(m, xzOK)
    ELSE LET w == WriteByte(m.dec, RunOut[Len(RunOut) + 1 - m.dec.pend])
         IN  decMain([m EXCEPT !.buf.out[m.buf.outPos + 1] = w.b,
                               !.buf.outPos = @ + 1,
                               !.dec = [w.dec EXCEPT !.pend = @ - 1]])
  ELSE IF m.buf.inPos = Len(m.buf.in) THEN Ret(m, xzOK)
  ELSE
    LET c == m.buf.in[m.buf.inPos + 1]
        eat == [m EXCEPT !.buf.inPos = @ + 1]
    IN
    CASE m.dec.sequence = "seqStreamHeader" ->
           IF c = HDR THEN decMain([eat EXCEPT !.dec.sequence = "seqBlock"])
           ELSE IF c = HUC
             THEN Ret([eat EXCEPT !.dec.sequence = "seqBlock"], xzUnsupportedCheck)
           ELSE Ret(eat, xzFormatError)
      [] m.dec.sequence = "seqBlock" ->
           IF c = LitA THEN
             IF m.buf.outPos = Len(m.buf.out) THEN Ret(m, xzOK)
             ELSE LET w == WriteByte(m.dec, c)
                  IN  decMain([eat EXCEPT !.buf.out[m.buf.outPos + 1] = w.b,
                                          !.buf.outPos = @ + 1,
                                          !.dec = w.dec])
           ELSE IF c = RUN THEN decMain([eat EXCEPT !.dec.pend = Len(RunOut)])
           ELSE IF c = FTR
             THEN Ret([eat EXCEPT !.dec.sequence = "seqStreamEnd"], xzStreamEnd)
           ELSE IF c = BMEM THEN
             IF DictBig > m.dec.dictMax THEN Ret(eat, xzMemlimitError)
             ELSE decMain(eat)
           ELSE IF c = BOPT THEN Ret(eat, xzOptionsError)
           ELSE IF c = BDELTA THEN
             LET h == idDeltaHeader(m.dec)
             IN  IF h.ret = xzOK THEN decMain([eat EXCEPT !.dec = h.dec])
                 ELSE Ret(eat, h.ret)
           ELSE Ret(eat, xzDataError)
      [] OTHER ->
           \* run again after xzStreamEnd without xzDecReset
           Ret(eat, xzDataError)

\* xzDecRun: decMain, and xzBufError on the second call in a row that
\* neither consumes input nor produces output
xzDecRun(dec, buf) ==
  LET inStart == buf.inPos
      outStart == buf.outPos
      m == decMain([dec |-> dec, buf |-> buf])
      stuck == m.ret = xzOK /\ inStart = m.buf.inPos /\ outStart = m.buf.outPos
  IN  [dec |-> [m.dec EXCEPT !.allowBufError = stuck],
       buf |-> m.buf,
       ret |-> IF stuck /\ dec.allowBufError THEN xzBufError ELSE m.ret]

\* ------------------------------------------------------------------------
\* The wrapped io.Reader

\* the number of footers in s
RECURSIVE Footers(_)
Footers(s) ==
  IF s = << >> THEN 0
  ELSE (IF Head(s) = FTR THEN 1 ELSE 0) + Footers(Tail(s))

\* The upstream stalls and fails on contents of at most NoisyLen symbols; on
\* longer contents it only splits the bytes.
Noisy == Len(file) <= NoisyLen

\* What r.r.Read(r.in[:]) may return when u.pos bytes have been delivered:
\* some of the bytes that are left with a nil error, all of them with
\* io.EOF (with the last bytes, or alone once none is left), nothing with a
\* nil error, or a non-EOF error.  k is the byte count, e the error.
UpstreamReads(u) ==
  LET left == Len(file) - u.pos
  IN  {[k |-> k, e |-> nil] : k \in 1..Min(bufSize, left)}
      \cup (IF left <= bufSize THEN {[k |-> left, e |-> EOF]} ELSE {})
      \cup (IF Noisy /\ u.stalls < MaxStall THEN {[k |-> 0, e |-> nil]} ELSE {})
      \cup (IF Noisy /\ u.errs < MaxUpErr THEN {[k |-> 0, e |-> errUpstream]} ELSE {})

\* the upstream after it has returned x
UpstreamAfter(u, x) ==
  [pos |-> u.pos + x.k,
   stalls |-> IF x.k = 0 /\ x.e = nil THEN u.stalls + 1 ELSE u.stalls,
   errs |-> IF x.e = errUpstream THEN u.errs + 1 ELSE u.errs]

\* ------------------------------------------------------------------------
\* The Reader (reader.go)

\* a NewReader that passes dictMax on as it is
NewReader_NoDefault(dictMax) ==
  [multistream |-> TRUE,
   rEOF |-> FALSE,
   dEOF |-> FALSE,
   padding |-> -1,
   outPos |-> 0,
   buf |-> [in |-> << >>, inPos |-> 0,
            out |-> [i \in 1..bufSize |-> 0], outPos |-> 0],
   dec |-> xzDecInit(dictMax),
   err |-> nil]

\* NewReader(r, dictMax) for a non-nil r
NewReader(dictMax) ==
  [multistream |-> TRUE,
   rEOF |-> FALSE,
   dEOF |-> FALSE,
   padding |-> -1,
   outPos |-> 0,
   buf |-> [in |-> << >>, inPos |-> 0,
            out |-> [i \in 1..bufSize |-> 0], outPos |-> 0],
   dec |-> xzDecInit(IF dictMax = 0 THEN DefaultDictMax ELSE dictMax),
   err |-> nil]

\* the nil *Reader: a record with none of the fields of a Reader
NilReader == [isNil |-> TRUE]

\* NewReader(src, dictMax): the result is [z, err]; src is nil or a source
NewReaderResult(src, dictMax) ==
  IF src = nil THEN [z |-> NilReader, err |-> ErrNilReader]
  ELSE [z |-> NewReader(dictMax), err |-> nil]

\* the zero bytes at the front of s
RECURSIVE LeadingZeros(_)
LeadingZeros(s) ==
  IF s = << >> \/ Head(s) # Zero THEN 0 ELSE 1 + LeadingZeros(Tail(s))

\* a padding count that starts again with every input buffer
SkipPadding_PerBuffer(rd) ==
  LET z == LeadingZeros(SubSeq(rd.buf.in, rd.buf.inPos + 1, Len(rd.buf.in)))
  IN  [rd EXCEPT !.buf.inPos = @ + z, !.padding = z]

\* decode, "read all padding in input buffer"
SkipPadding(rd) ==
  LET z == LeadingZeros(SubSeq(rd.buf.in, rd.buf.inPos + 1, Len(rd.buf.in)))
  IN  [rd EXCEPT !.buf.inPos = @ + z, !.padding = @ + z]

\* a decode that leaves the decoder as it is when the padding is over
decode_NoReset(rd) ==
  IF rd.padding >= 0 THEN
    LET r1 == SkipPadding(rd)
    IN  IF r1.buf.inPos = Len(r1.buf.in) /\ r1.rEOF THEN
          [r |-> r1,
           ret |-> IF r1.padding % 4 # 0 THEN xzBufError ELSE xzStreamEnd]
        ELSE IF r1.buf.inPos = Len(r1.buf.in) THEN
          [r |-> r1, ret |-> xzOK]
        ELSE IF r1.padding % 4 # 0 THEN
          [r |-> r1, ret |-> xzDataError]
        ELSE
          [r |-> r1, ret |-> xzStreamEnd]
  ELSE
    LET d == xzDecRun(rd.dec, [rd.buf EXCEPT !.outPos = 0])
    IN  [r |-> [rd EXCEPT !.outPos = 0, !.buf = d.buf, !.dec = d.dec],
         ret |-> d.ret]

\* Reader.decode: the result is [r, ret]
decode(rd) ==
  IF rd.padding >= 0 THEN
    LET r1 == SkipPadding(rd)
    IN  IF r1.buf.inPos = Len(r1.buf.in) /\ r1.rEOF THEN
          [r |-> r1,
           ret |-> IF r1.padding % 4 # 0 THEN xzBufError ELSE xzStreamEnd]
        ELSE IF r1.buf.inPos = Len(r1.buf.in) THEN
          [r |-> r1, ret |-> xzOK]
        ELSE IF r1.padding % 4 # 0 THEN
          [r |-> r1, ret |-> xzDataError]
        ELSE
          [r |-> [r1 EXCEPT !.dec = xzDecReset(r1.dec)], ret |-> xzStreamEnd]
  ELSE
    LET d == xzDecRun(rd.dec, [rd.buf EXCEPT !.outPos = 0])
    IN  [r |-> [rd EXCEPT !.outPos = 0, !.buf = d.buf, !.dec = d.dec],
         ret |-> d.ret]

\* a copy loop that takes the bytes from the start of buf.out
CopyOut_FromStart(l, plen) ==
  LET k == Min(l.r.buf.outPos - l.r.outPos, plen - Len(l.p))
  IN  [l EXCEPT !.p = @ \o SubSeq(l.r.buf.out, 1, k),
                !.r.outPos = @ + k]

\* a copy loop that does not look at len(p)
CopyOut_IgnoreLen(l, plen) ==
  LET k == l.r.buf.outPos - l.r.outPos
  IN  [l EXCEPT !.p = @ \o SubSeq(l.r.buf.out, l.r.outPos + 1, l.r.outPos + k),
                !.r.outPos = @ + k]

\* Read, "copy r.buf.out -> p": l is [r, up, p, err, produced], p the bytes
\* copied so far and produced the bytes decoded so far
CopyOut(l, plen) ==
  LET k == Min(l.r.buf.outPos - l.r.outPos, plen - Len(l.p))
  IN  [l EXCEPT !.p = @ \o SubSeq(l.r.buf.out, l.r.outPos + 1, l.r.outPos + k),
                !.r.outPos = @ + k]

\* Read, "if needed, read more data from r.r", when the upstream returns x
\* with no error or io.EOF
Refill(l, x) ==
  [l EXCEPT !.up = UpstreamAfter(l.up, x),
            !.asked = TRUE,
            !.r.rEOF = IF x.e = EOF THEN TRUE ELSE @,
            !.r.buf.in = SubSeq(file, l.up.pos + 1, l.up.pos + x.k),
            !.r.buf.inPos = 0]

\* a Reader that ends only at the end of the upstream
StreamEndCase_IgnoreMode(rd) ==
  IF rd.padding >= 0
  THEN [rd EXCEPT !.padding = -1,
                  !.dEOF = IF rd.rEOF = TRUE THEN TRUE ELSE @]
  ELSE [rd EXCEPT !.padding = 0]

\* a Read that leaves the padding count as it is when the padding is over
StreamEndCase_KeepPadding(rd) ==
  IF rd.padding >= 0
  THEN [rd EXCEPT !.dEOF = IF ~rd.multistream \/ rd.rEOF = TRUE THEN TRUE ELSE @]
  ELSE [rd EXCEPT !.padding = 0]

\* Read, the switch on the result of decode
StreamEndCase(rd) ==
  IF rd.padding >= 0
  THEN [rd EXCEPT !.padding = -1,
                  !.dEOF = IF ~rd.multistream \/ rd.rEOF = TRUE THEN TRUE ELSE @]
  ELSE [rd EXCEPT !.padding = 0]

\* a Read that goes on decoding after xzUnsupportedCheck
RetError_ContinueUnsupported(ret, err) ==
  CASE ret = xzMemlimitError -> ErrMemlimit
    [] ret = xzFormatError -> ErrFormat
    [] ret = xzOptionsError -> ErrOptions
    [] ret = xzDataError -> ErrData
    [] ret = xzBufError -> ErrBuf
    [] OTHER -> err

\* a Read that reports xzMemlimitError as corrupt data
RetError_MemAsData(ret, err) ==
  CASE ret = xzUnsupportedCheck -> ErrUnsupportedCheck
    [] ret = xzMemlimitError -> ErrData
    [] ret = xzFormatError -> ErrFormat
    [] ret = xzOptionsError -> ErrOptions
    [] ret = xzDataError -> ErrData
    [] ret = xzBufError -> ErrBuf
    [] OTHER -> err

RetError(ret, err) ==
  CASE ret = xzUnsupportedCheck -> ErrUnsupportedCheck
    [] ret = xzMemlimitError -> ErrMemlimit
    [] ret = xzFormatError -> ErrFormat
    [] ret = xzOptionsError -> ErrOptions
    [] ret = xzDataError -> ErrData
    [] ret = xzBufError -> ErrBuf
    [] OTHER -> err

\* a Read that does not save err in the Reader
DecodeMore_NoSave(l) ==
  LET d == decode(l.r)
      err == RetError(d.ret, l.err)
      r1 == IF d.ret = xzStreamEnd THEN StreamEndCase(d.r) ELSE d.r
  IN  [l EXCEPT !.r = r1, !.err = err,
                !.ran = @ \/ l.r.padding < 0,
                !.ranAfterEnd =
                   @ \/ (l.r.padding < 0 /\ l.r.dec.sequence = "seqStreamEnd"),
                !.ranPending =
                   @ \/ (l.r.padding < 0 /\ l.r.outPos < l.r.buf.outPos),
                !.produced = IF l.r.padding >= 0 THEN @
                             ELSE @ \o SubSeq(d.r.buf.out, 1, d.r.buf.outPos)]

\* Read, "decode more data" to "save err".  l.ran tells that xzDecRun was
\* invoked during this Read, l.ranAfterEnd that it was invoked on a decoder
\* that had returned xzStreamEnd and was not reset, l.asked that r.r.Read
\* was called.
DecodeMore(l) ==
  LET d == decode(l.r)
      err == RetError(d.ret, l.err)
      r1 == IF d.ret = xzStreamEnd THEN StreamEndCase(d.r) ELSE d.r
  IN  [l EXCEPT !.r = [r1 EXCEPT !.err = err], !.err = err,
                !.ran = @ \/ l.r.padding < 0,
                !.ranAfterEnd =
                   @ \/ (l.r.padding < 0 /\ l.r.dec.sequence = "seqStreamEnd"),
                !.ranPending =
                   @ \/ (l.r.padding < 0 /\ l.r.outPos < l.r.buf.outPos),
                !.produced = IF l.r.padding >= 0 THEN @
                             ELSE @ \o SubSeq(d.r.buf.out, 1, d.r.buf.outPos)]

\* a Read that returns the recorded error while output remains
FullReturn_KeepErr(l) == l

\* Read, "if p full but output remaining, return with err == nil"
FullReturn(l) == [l EXCEPT !.err = nil]

\* a loop that leaves with a nil error when the decoder has finished
LoopStep_EOFNil(l0, plen, answers) ==
  LET l == CopyOut(l0, plen)
      Break(x) == [l |-> x, done |-> TRUE]
      Again(x) == [l |-> x, done |-> FALSE]
  IN  IF l.r.outPos < l.r.buf.outPos /\ Len(l.p) = plen
        THEN {Break(FullReturn(l))}
      ELSE IF l.err # nil THEN {Break(l)}
      ELSE IF l.r.dEOF THEN {Break([l EXCEPT !.err = nil])}
      ELSE IF l.r.buf.inPos = Len(l.r.buf.in) /\ ~l.r.rEOF THEN
        {IF x.e # nil /\ x.e # EOF
           THEN Break([l EXCEPT !.up = UpstreamAfter(l.up, x), !.err = x.e,
                                !.asked = TRUE])
           ELSE Again(DecodeMore(Refill(l, x)))
         : x \in answers}
      ELSE {Again(DecodeMore(l))}

\* Reader.Read: one iteration of the loop, from l0, when answers is what
\* r.r.Read may return.  The result is the set of the [l, done] it can end
\* with, done telling that the iteration left the loop (break).
LoopStep(l0, plen, answers) ==
  LET l == CopyOut(l0, plen)
      Break(x) == [l |-> x, done |-> TRUE]
      Again(x) == [l |-> x, done |-> FALSE]
  IN  IF l.r.outPos < l.r.buf.outPos /\ Len(l.p) = plen
        THEN {Break(FullReturn(l))}
      ELSE IF l.err # nil THEN {Break(l)}
      ELSE IF l.r.dEOF THEN {Break([l EXCEPT !.err = EOF])}
      ELSE IF l.r.buf.inPos = Len(l.r.buf.in) /\ ~l.r.rEOF THEN
        {IF x.e # nil /\ x.e # EOF
           THEN Break([l EXCEPT !.up = UpstreamAfter(l.up, x), !.err = x.e,
                                !.asked = TRUE])
           ELSE Again(DecodeMore(Refill(l, x)))
         : x \in answers}
      ELSE {Again(DecodeMore(l))}

\* Reader.Read: the loop, from l0; the result is the set of the [r, up, p,
\* err] it can return with, one for each way the upstream can answer
RECURSIVE ReadLoop(_, _)
ReadLoop(l0, plen) ==
  UNION {IF s.done THEN {s.l} ELSE ReadLoop(s.l, plen)
         : s \in LoopStep(l0, plen, UpstreamReads(l0.up))}

\* Read, on entry: "restore err"
ReadEntry(rd, u) ==
  [r |-> rd, up |-> u, p |-> << >>, err |-> rd.err,
   produced |-> produced, ran |-> FALSE, ranAfterEnd |-> FALSE,
   ranPending |-> FALSE, asked |-> FALSE]

\* a Read that does not restore the recorded error
ReadResults_NoRestore(rd, u, plen) ==
  ReadLoop([r |-> rd, up |-> u, p |-> << >>, err |-> nil,
            produced |-> produced, ran |-> FALSE, ranAfterEnd |-> FALSE,
            ranPending |-> FALSE, asked |-> FALSE], plen)

\* Reader.Read(p) with len(p) = plen: "restore err", then the loop
ReadResults(rd, u, plen) ==
  ReadLoop(ReadEntry(rd, u), plen)

\* Reader.Multistream(ok)
MultistreamResult(rd, ok) == [rd EXCEPT !.multistream = ok]

\* a Reset that does not look at rEOF
ResetResult_NoEOFCheck(rd) ==
  IF ~rd.dEOF THEN [r |-> rd, err |-> nil]
  ELSE [r |-> [rd EXCEPT !.dEOF = FALSE, !.multistream = TRUE], err |-> nil]

\* a Reset that always goes back to multistream mode
ResetResult_AlwaysMulti(rd) ==
  IF ~rd.dEOF THEN [r |-> [rd EXCEPT !.multistream = TRUE], err |-> nil]
  ELSE IF rd.rEOF THEN [r |-> rd, err |-> EOF]
  ELSE [r |-> [rd EXCEPT !.dEOF = FALSE, !.multistream = TRUE], err |-> nil]

\* Reader.Reset: the result is [r, err]
ResetResult(rd) ==
  IF ~rd.dEOF THEN [r |-> rd, err |-> nil]
  ELSE IF rd.rEOF THEN [r |-> rd, err |-> EOF]
  ELSE [r |-> [rd EXCEPT !.dEOF = FALSE, !.multistream = TRUE], err |-> nil]

\* ------------------------------------------------------------------------
\* Specification

\* hist.epoch tells how the Reads since NewReader or the last Reset that
\* took effect were made: "none" (no Read yet), "multi" (all with
\* multistream true), "single" (all with multistream false) or "mixed".
\* hist.resets counts the Resets that took effect, and hist.allSingle
\* tells that the Reads before the last of them were all "single".
\* hist.eofReads counts, up to 2, the Reads returned since one returned
\* io.EOF, itself included, and starts again at a Reset that took effect.
\* hist.upErrReads counts, up to 2, the Reads returned since one returned
\* the upstream's error, itself included.  hist.dictMax is the dictMax
\* given to NewReader, and hist.ranAfterEnd tells that xzDecRun was ever
\* invoked on a decoder that had returned xzStreamEnd and was not reset,
\* and hist.ranPending that it was ever invoked while r.outPos < buf.outPos.
\* last.over tells that the last Read copied more than len(p) bytes,
\* last.full that it returned n = len(p),
\* last.ran and last.asked that it invoked xzDecRun and called r.r.Read.
\* no Read is in progress
Idle == [busy |-> FALSE]

EpochAfterRead(epoch, multistream) ==
  LET now == IF multistream THEN "multi" ELSE "single"
  IN  IF epoch = "none" \/ epoch = now THEN now ELSE "mixed"

Init ==
  /\ file \in Files
  /\ \E d \in DictMaxes :
       /\ d # 0 => \E i \in 1..Len(file) : file[i] = BMEM
       /\ r = NewReader(d)
       /\ hist = [resets |-> 0, epoch |-> "none", allSingle |-> TRUE,
                  eofReads |-> 0, upErrReads |-> 0, dictMax |-> d,
                  ranAfterEnd |-> FALSE, ranPending |-> FALSE]
  /\ up = [pos |-> 0, stalls |-> 0, errs |-> 0]
  /\ last = [op |-> "NewReader", n |-> 0, err |-> nil, over |-> FALSE,
             full |-> FALSE,
             ran |-> FALSE, asked |-> FALSE]
  /\ delivered = << >>
  /\ produced = << >>
  /\ returnedErr = nil
  /\ sinceErr = 0
  /\ call = Idle

\* Read(p) with len(p) = plen returns with l: what the Reader, the upstream
\* and the history are then
Return(l, plen) ==
  /\ r' = l.r
  /\ up' = l.up
  /\ last' = [op |-> "Read", n |-> Len(l.p), err |-> l.err,
               over |-> Len(l.p) > plen, full |-> Len(l.p) = plen,
               ran |-> l.ran, asked |-> l.asked]
  /\ delivered' = delivered \o l.p
  /\ produced' = l.produced
  /\ returnedErr' = IF returnedErr = nil /\ l.err \in DecoderErrors
                      THEN l.err ELSE returnedErr
  /\ sinceErr' = IF returnedErr' = nil THEN 0 ELSE Min(sinceErr + 1, 2)
  /\ hist' = [hist EXCEPT
               !.epoch = IF r.dEOF \/ r.err # nil THEN @
                         ELSE EpochAfterRead(@, r.multistream),
               !.eofReads = IF @ > 0 \/ l.err = EOF
                              THEN Min(@ + 1, 2) ELSE 0,
               !.upErrReads = IF @ > 0 \/ l.err = errUpstream
                                THEN Min(@ + 1, 2) ELSE 0,
               !.ranAfterEnd = @ \/ l.ranAfterEnd,
               !.ranPending = @ \/ l.ranPending]
  /\ UNCHANGED file

Read ==
  \E plen \in 0..MaxP :
    \E l \in ReadResults(r, up, plen) :
      Return(l, plen) /\ UNCHANGED call

Multistream ==
  \E ok \in BOOLEAN :
    /\ r' = MultistreamResult(r, ok)
    /\ UNCHANGED <<file, up, last, delivered, produced, returnedErr,
                   sinceErr, hist, call>>

Reset ==
  LET x == ResetResult(r)
  IN  /\ r' = x.r
      /\ last' = [op |-> "Reset", n |-> 0, err |-> x.err, over |-> FALSE,
                   full |-> FALSE,
                   ran |-> FALSE, asked |-> FALSE]
      /\ hist' = IF x.r.dEOF = r.dEOF THEN hist
                 ELSE [hist EXCEPT
                         !.resets = @ + 1, !.epoch = "none",
                         !.allSingle = @ /\ hist.epoch = "single",
                         !.eofReads = 0]
      /\ UNCHANGED <<file, up, delivered, produced, returnedErr, sinceErr,
                     call>>

Next == Read \/ Multistream \/ Reset

Spec == Init /\ [][Next]_vars

\* ------------------------------------------------------------------------
\* Notions the properties are stated with

\* decoded bytes not yet copied to a caller
Pending == r.buf.outPos - r.outPos
\* bytes of the upstream content the decoder has consumed
Consumed == up.pos - (Len(r.buf.in) - r.buf.inPos)
\* bytes of the upstream content not consumed, delivered or not
Unconsumed == Len(file) - Consumed
\* the upstream was never asked to stall or fail
QuietUpstream == up.stalls = 0 /\ up.errs = 0

\* the part of the upstream content the decoder has consumed
ConsumedPart == Prefix(file, Consumed)
\* a step of Read, and a step of Reset
IsReadStep == last'.op = "Read" /\ r'.multistream = r.multistream
IsResetStep ==
  last'.op = "Reset" /\ (r'.multistream # r.multistream => r'.dEOF # r.dEOF)

IsPrefix(s, t) == Len(s) <= Len(t) /\ s = SubSeq(t, 1, Len(s))

\* what a record decodes to inside a block
Emit(c) == IF c = LitA THEN <<LitA>> ELSE IF c = RUN THEN RunOut ELSE << >>

\* the bytes raw after the Delta filter of distance 1, prev being the byte
\* before them
RECURSIVE DeltaSeq(_, _)
DeltaSeq(raw, prev) ==
  IF raw = << >> THEN << >>
  ELSE LET b == (Head(raw) + prev) % 256 IN <<b>> \o DeltaSeq(Tail(raw), b)

\* what the records of s decode to, with delta telling that the block they
\* are in names the Delta filter and prev the last byte decoded in it
RECURSIVE EmittedFrom(_, _, _)
EmittedFrom(s, delta, prev) ==
  IF s = << >> THEN << >>
  ELSE LET c == Head(s)
           out == IF delta THEN DeltaSeq(Emit(c), prev) ELSE Emit(c)
       IN  IF c = BDELTA THEN EmittedFrom(Tail(s), TRUE, 0)
           ELSE IF c \in {HDR, FTR} THEN EmittedFrom(Tail(s), FALSE, 0)
           ELSE out \o EmittedFrom(Tail(s), delta,
                                   IF out = << >> THEN prev ELSE out[Len(out)])

Emitted(s) == EmittedFrom(s, FALSE, 0)

\* s is one or more well-formed streams, each followed by stream padding of
\* a multiple of four bytes.  at is "hdr" before a stream header, "blk"
\* inside a stream and "pad" after a footer, with z the padding seen mod 4.
RECURSIVE WellFormedFrom(_, _, _)
WellFormedFrom(s, at, z) ==
  IF s = << >> THEN at = "pad" /\ z = 0
  ELSE LET c == Head(s)
       IN CASE at = "hdr" -> c = HDR /\ WellFormedFrom(Tail(s), "blk", 0)
            [] at = "blk" ->
                 \/ c \in {LitA, RUN} /\ WellFormedFrom(Tail(s), "blk", 0)
                 \/ c = FTR /\ WellFormedFrom(Tail(s), "pad", 0)
            [] OTHER ->
                 \/ c = Zero /\ WellFormedFrom(Tail(s), "pad", (z + 1) % 4)
                 \/ c = HDR /\ z = 0 /\ WellFormedFrom(Tail(s), "blk", 0)

WellFormed(s) == WellFormedFrom(s, "hdr", 0)

\* what is not consumed is one or more further streams, all well-formed
FollowOnStream ==
  Unconsumed > 0 /\ WellFormed(SubSeq(file, Consumed + 1, Len(file)))

\* the zero bytes at the end of s
RECURSIVE TrailingZeros(_)
TrailingZeros(s) ==
  IF s = << >> \/ s[Len(s)] # Zero THEN 0
  ELSE 1 + TrailingZeros(SubSeq(s, 1, Len(s) - 1))

\* ------------------------------------------------------------------------
\* Properties

\* C1: once a Read has returned a decoder error, every later Read returns 0
\* bytes and that same error, whatever len(p) is and whatever calls of
\* Reset and Multistream come in between.
C1_StickyDecoderError ==
  (sinceErr = 2 /\ last.op = "Read") =>
    (last.n = 0 /\ last.err = returnedErr /\ returnedErr \in DecoderErrors)

\* a later Read has returned (0, ErrData), after bytes were delivered and
\* with multistream switched off
C1_Witness ==
  /\ sinceErr = 2 /\ last.op = "Read" /\ last.n = 0 /\ last.err = ErrData
  /\ delivered # << >> /\ ~r.multistream

\* C2: a decoder error is not returned early.  A Read that leaves decoded
\* bytes undelivered returns nil; the Read after which none is left returns
\* the recorded error; and when a decoder error is returned every byte the
\* decoder produced has been delivered, in order.
C2_NoPrematureError ==
  /\ IsPrefix(delivered, produced)
  /\ (last.op = "Read" /\ Pending > 0) => last.err = nil
  /\ (last.op = "Read" /\ Pending = 0 /\ r.err # nil) => last.err = r.err
  /\ (last.op = "Read" /\ last.err \in DecoderErrors) => delivered = produced

\* a Read has returned nil with the error recorded and bytes still pending
C2_Witness ==
  /\ last.op = "Read" /\ last.err = nil /\ last.n > 0
  /\ r.err = ErrData /\ Pending > 0

\* C3: with multistream true and an upstream content of well-formed streams
\* separated by stream padding of a multiple of four bytes, the Reads end
\* with io.EOF, with no error, and the bytes delivered up to io.EOF are
\* decode(X1) .. decode(Xk).
C3_Concatenation ==
  (/\ WellFormed(file) /\ QuietUpstream
   /\ hist.resets = 0 /\ hist.epoch = "multi" /\ last.op = "Read") =>
    /\ last.err \in {nil, EOF}
    /\ last.err = EOF => delivered = Emitted(file)

\* C4: with multistream false the Reader stops at the end of a stream and
\* of the stream padding after it.  Read returns io.EOF once that stream's
\* bytes are delivered, without consuming a byte of what follows, and every
\* later Read returns (0, io.EOF) until a Reset takes effect, also after
\* Multistream(true).
C4_SingleStreamEOF ==
  /\ (hist.eofReads = 2 /\ last.op = "Read") =>
       (last.n = 0 /\ last.err = EOF)
  /\ (last.op = "Read" /\ r.dEOF /\ Pending = 0) => last.err = EOF
  /\ (/\ hist.resets = 0 /\ hist.epoch = "single"
      /\ last.op = "Read" /\ last.err = EOF) =>
       /\ Footers(ConsumedPart) = 1
       /\ TrailingZeros(ConsumedPart) % 4 = 0
       /\ Unconsumed > 0 => file[Consumed + 1] # Zero
       /\ delivered = Emitted(ConsumedPart)

\* a later Read has returned (0, io.EOF) after the first stream, with a
\* further stream waiting and multistream switched on again
C4_Witness ==
  /\ hist.eofReads = 2 /\ hist.resets = 0 /\ hist.epoch = "single"
  /\ last.op = "Read" /\ last.n = 0 /\ last.err = EOF
  /\ r.multistream /\ FollowOnStream /\ delivered # << >>

\* C5: in single-stream mode, when a further stream follows the one just
\* read to io.EOF, Reset returns nil, and the Reads after Reset and
\* Multistream(false) deliver that stream's payload, decoded from its first
\* header byte: alternating Reads and Resets yields each payload in turn,
\* however the upstream splits its bytes and reports io.EOF.
C5_ResetStartsNextStream ==
  /\ (/\ hist.allSingle /\ hist.epoch \in {"single", "none"}
      /\ last.op = "Reset" /\ FollowOnStream) => last.err = nil
  /\ (/\ hist.allSingle /\ hist.epoch = "single"
      /\ last.op = "Read" /\ last.err = EOF) =>
       /\ Footers(ConsumedPart) = hist.resets + 1
       /\ delivered = Emitted(ConsumedPart)

\* C6: with no further stream (the stream is finished and the upstream
\* content is used up) Reset returns io.EOF and changes nothing, and Read
\* keeps returning (0, io.EOF).
C6_ResetAtEnd ==
  [][(r.dEOF /\ Unconsumed = 0) =>
       /\ IsResetStep => (last'.err = EOF /\ r' = r)
       /\ (IsReadStep /\ Pending = 0) =>
            (last'.n = 0 /\ last'.err = EOF /\ r' = r)]_vars

\* Reset has returned io.EOF at the end of the upstream content, after
\* stream padding, and after Read had returned io.EOF more than once
C6_Witness ==
  /\ last.op = "Reset" /\ last.err = EOF /\ r.dEOF /\ Unconsumed = 0
  /\ hist.eofReads = 2 /\ TrailingZeros(file) = 4

\* C7: a Reset that takes effect sets multistream mode again: unless
\* Multistream(false) is called, the Reads after it decode every remaining
\* stream, up to the end of the upstream, and do not stop after the next.
C7_ResetRestoresMultistream ==
  (/\ WellFormed(file) /\ QuietUpstream
   /\ hist.resets > 0 /\ hist.epoch = "multi"
   /\ last.op = "Read" /\ last.err = EOF) =>
    Unconsumed = 0

\* the upstream has reported io.EOF and the Reader has consumed all of its
\* content, which ends with a stream footer and z >= 0 bytes of padding
PaddingAtEOF ==
  /\ r.rEOF /\ Unconsumed = 0
  /\ Len(file) > TrailingZeros(file)
  /\ file[Len(file) - TrailingZeros(file)] = FTR

\* C8: when the upstream reaches io.EOF in stream padding, Read returns
\* ErrBuf if the zero bytes since the footer are not a multiple of four and
\* io.EOF if they are, none included; the bytes are counted over all the
\* input buffers they came in.
C8_PaddingAtEOF ==
  (last.op = "Read" /\ PaddingAtEOF /\ Pending = 0 /\ QuietUpstream) =>
    IF TrailingZeros(file) % 4 # 0
      THEN last.err = ErrBuf /\ r.padding = TrailingZeros(file)
      ELSE last.err = EOF /\ r.padding = -1

\* Read has returned ErrBuf for padding that came in more than one buffer
C8_Witness ==
  /\ last.op = "Read" /\ last.err = ErrBuf /\ PaddingAtEOF
  /\ r.padding = TrailingZeros(file) /\ r.padding > Len(r.buf.in)

\* C9: a non-zero byte after stream padding.  After padding of a multiple
\* of four bytes it is not consumed: in single-stream mode Read stops there
\* with io.EOF, and in multistream mode it is read as the first byte of the
\* next stream header, so that Read does not stop there.  After padding of
\* another length Read returns ErrData, in both modes.
C9_ByteAfterPadding ==
  /\ (/\ last.op = "Read" /\ QuietUpstream /\ Pending = 0
      /\ r.padding > 0 /\ r.padding % 4 # 0
      /\ Unconsumed > 0 /\ file[Consumed + 1] # Zero) => last.err = ErrData
  /\ (/\ last.op = "Read" /\ QuietUpstream /\ last.err = EOF
      /\ Unconsumed > 0) =>
       /\ file[Consumed + 1] # Zero
       /\ TrailingZeros(ConsumedPart) % 4 = 0
       /\ hist.epoch # "multi"

\* C10: an error e of the upstream that is not io.EOF is returned by the
\* Read that met it, as e, and is fatal: every later Read returns 0 bytes
\* and e.
C10_UpstreamErrorFatal ==
  /\ up.errs > 0 => hist.upErrReads >= 1
  /\ (last.op = "Read" /\ hist.upErrReads >= 1) => last.err = errUpstream
  /\ (last.op = "Read" /\ hist.upErrReads = 2) => last.n = 0

\* s is the beginning of well-formed streams with their padding: it can be
\* continued to a well-formed content
RECURSIVE ValidSoFar(_, _, _)
ValidSoFar(s, at, z) ==
  IF s = << >> THEN TRUE
  ELSE LET c == Head(s)
       IN CASE at = "hdr" -> c = HDR /\ ValidSoFar(Tail(s), "blk", 0)
            [] at = "blk" ->
                 \/ c \in {LitA, RUN} /\ ValidSoFar(Tail(s), "blk", 0)
                 \/ c = FTR /\ ValidSoFar(Tail(s), "pad", 0)
            [] OTHER ->
                 \/ c = Zero /\ ValidSoFar(Tail(s), "pad", (z + 1) % 4)
                 \/ c = HDR /\ z = 0 /\ ValidSoFar(Tail(s), "blk", 0)

\* the upstream content is a valid file cut short, and not a valid file
Truncated == ValidSoFar(file, "hdr", 0) /\ ~WellFormed(file)

\* the cursors of the Reader are within its buffers
CursorsInBounds ==
  /\ 0 <= r.buf.inPos /\ r.buf.inPos <= Len(r.buf.in)
  /\ Len(r.buf.in) <= bufSize
  /\ 0 <= r.outPos /\ r.outPos <= r.buf.outPos
  /\ r.buf.outPos <= Len(r.buf.out) /\ Len(r.buf.out) = bufSize

\* C11: truncation safety.  When the upstream delivers a valid file cut
\* short and then io.EOF, the Reads deliver a prefix of the plaintext and
\* then return ErrBuf or ErrData, never io.EOF, and the cursors stay within
\* the buffers.
C11_TruncationSafety ==
  (/\ Truncated /\ QuietUpstream
   /\ hist.resets = 0 /\ hist.epoch = "multi" /\ last.op = "Read") =>
    /\ IsPrefix(delivered, Emitted(file))
    /\ last.err \in {nil, ErrBuf, ErrData}
    /\ Pending = 0 => last.err \in {ErrBuf, ErrData}
    /\ CursorsInBounds /\ ~last.over

\* the dictionary cap that NewReader(r, dictMax) asks for
DictCap(dictMax) == IF dictMax = 0 THEN DefaultDictMax ELSE dictMax

\* the record at position k of the upstream content is inside a block
InBlock(k) ==
  k \in 1..Len(file) /\ ValidSoFar(Prefix(file, k - 1) \o <<LitA>>, "hdr", 0)

\* C12: when a block declares an LZMA2 dictionary larger than the cap
\* given to NewReader, Read returns ErrMemlimit once the bytes decoded
\* before that block are delivered, and nothing of that block is decoded; a
\* content whose first block does so yields (0, ErrMemlimit).  With a cap
\* that is large enough ErrMemlimit is not returned.
C12_Memlimit ==
  \A k \in 1..Len(file) :
    (file[k] = BMEM /\ InBlock(k) /\ Consumed >= k /\ last.op = "Read") =>
      IF DictBig > DictCap(hist.dictMax) THEN
        /\ produced = Emitted(Prefix(file, k - 1))
        /\ last.err \in {nil, ErrMemlimit}
        /\ Pending = 0 => (last.err = ErrMemlimit /\ delivered = produced)
        /\ k = 2 => (last.n = 0 /\ last.err = ErrMemlimit)
      ELSE last.err # ErrMemlimit /\ r.err # ErrMemlimit

\* Read has returned (0, ErrMemlimit) for a first block with payload
C12_Witness ==
  /\ file = <<HDR, BMEM, LitA, FTR>> /\ hist.dictMax = 0
  /\ last.op = "Read" /\ last.n = 0 /\ last.err = ErrMemlimit
  /\ delivered = << >> /\ produced = << >>

\* C13: for a stream header that names an unsupported check type Read
\* returns ErrUnsupportedCheck before any plaintext of that stream is
\* delivered, and the error is terminal: once it is recorded no Read runs
\* the decoder or reads the upstream again.
C13_UnsupportedCheck ==
  /\ [](/\ (last.op = "Read" /\ last.err = ErrUnsupportedCheck) =>
             /\ Consumed >= 1 /\ file[Consumed] = HUC
             /\ produced = Emitted(Prefix(file, Consumed - 1))
             /\ delivered = produced
        /\ (last.op = "Read" /\ Consumed >= 1 /\ file[1] = HUC) =>
             (last.n = 0 /\ last.err = ErrUnsupportedCheck))
  /\ [][(r.err = ErrUnsupportedCheck /\ IsReadStep) =>
         /\ ~last'.ran /\ ~last'.asked
         /\ r'.dec = r.dec /\ r'.buf.inPos = r.buf.inPos
         /\ r'.err = ErrUnsupportedCheck
         /\ last'.err \in {nil, ErrUnsupportedCheck}]_vars

\* a later Read has returned (0, ErrUnsupportedCheck) without running the
\* decoder, for a content that starts with such a header
C13_Witness ==
  /\ file = <<HUC>>
  /\ last.op = "Read" /\ last.n = 0 /\ last.err = ErrUnsupportedCheck
  /\ sinceErr = 2 /\ ~last.ran /\ ~last.asked

\* C14: idempotent failure.  Once a decoder error is recorded or has been
\* returned, a Read neither calls r.r.Read nor runs the decoder, and leaves
\* buf.in, buf.inPos, buf.outPos, padding, rEOF, dEOF, the decoder and the
\* recorded error as they are; when no decoded byte is pending it returns
\* 0 bytes and that error and changes nothing at all.
C14_IdempotentFailure ==
  [][((r.err \in DecoderErrors \/ returnedErr # nil) /\ IsReadStep) =>
       /\ ~last'.ran /\ ~last'.asked /\ up' = up
       /\ r'.buf = r.buf /\ r'.dec = r.dec
       /\ r'.padding = r.padding /\ r'.rEOF = r.rEOF /\ r'.dEOF = r.dEOF
       /\ r'.err = r.err /\ r.err \in DecoderErrors
       /\ Pending = 0 => (r' = r /\ last'.n = 0 /\ last'.err = r.err)]_vars

\* a later Read has returned (0, ErrData), the error of a stream header
\* inside a block, with input left in the buffer and in the upstream
C14_Witness ==
  /\ sinceErr = 2 /\ last.op = "Read" /\ last.n = 0 /\ last.err = ErrData
  /\ ~last.ran /\ ~last.asked
  /\ r.buf.inPos < Len(r.buf.in) /\ up.pos < Len(file)

\* C16: a block header whose filter chain names the Delta filter is refused
\* with ErrOptions at the filter flags.  Nothing of that block is decoded or
\* delivered: what has been decoded is the plaintext of the records before
\* the header, Read returns ErrOptions once those bytes are delivered, and
\* (0, ErrOptions) when the header opens the first block of the content.
C16_DeltaRejected ==
  \A k \in 1..Len(file) :
    (file[k] = BDELTA /\ InBlock(k) /\ Consumed >= k /\ last.op = "Read") =>
      /\ produced = Emitted(Prefix(file, k - 1))
      /\ IsPrefix(delivered, produced)
      /\ last.err \in {nil, ErrOptions}
      /\ Pending = 0 => (last.err = ErrOptions /\ delivered = produced)
      /\ k = 2 => (last.n = 0 /\ last.err = ErrOptions)

\* ------------------------------------------------------------------------
\* NewReader on its own: one call, for a nil or non-nil source and for
\* dictMax over small values and some large ones

Sources == {nil, "source"}
DictArgs == (0..MaxDictArg) \cup {DefaultDictMax, DictBig, 2147483647}

InitNewReader ==
  /\ r = NilReader
  /\ file = << >>
  /\ up = [pos |-> 0, stalls |-> 0, errs |-> 0]
  /\ last = [op |-> "none", err |-> nil]
  /\ delivered = << >> /\ produced = << >>
  /\ returnedErr = nil /\ sinceErr = 0
  /\ hist \in [src : Sources, dictMax : DictArgs]
  /\ call = Idle

NewReaderCall ==
  /\ last.op = "none"
  /\ LET x == NewReaderResult(hist.src, hist.dictMax)
     IN  r' = x.z /\ last' = [op |-> "NewReader", err |-> x.err]
  /\ UNCHANGED <<file, up, delivered, produced, returnedErr, sinceErr, hist,
                 call>>

NextNewReader == NewReaderCall

SpecNewReader == InitNewReader /\ [][NextNewReader]_vars

\* C15: NewReader returns no Reader and ErrNilReader for a nil source;
\* otherwise it returns a Reader and no error, with multistream true, no
\* recorded error, not at end of file, decoding a real stream (padding -1),
\* and a dictionary cap of dictMax, or of DefaultDictMax when dictMax is 0.
C15_NewReader ==
  last.op = "NewReader" =>
    IF hist.src = nil THEN r = NilReader /\ last.err = ErrNilReader
    ELSE /\ last.err = nil /\ r # NilReader
         /\ r.multistream /\ r.err = nil /\ ~r.dEOF /\ ~r.rEOF
         /\ r.padding = -1
         /\ r.dec.dictMax = DictCap(hist.dictMax) /\ DictCap(0) = 67108864
         /\ r.dec.sequence = "seqStreamHeader"
         /\ r.buf.in = << >> /\ r.buf.inPos = 0
         /\ r.buf.outPos = 0 /\ r.outPos = 0 /\ Len(r.buf.out) = bufSize

\* NewReader has returned a Reader with the default cap for dictMax = 0
C15_Witness ==
  /\ last.op = "NewReader" /\ hist.src # nil /\ hist.dictMax = 0
  /\ last.err = nil /\ r # NilReader /\ r.dec.dictMax = DefaultDictMax

\* ------------------------------------------------------------------------
\* Read followed iteration by iteration, on contents of at most StepLen
\* symbols, with an upstream that may return (0, nil) any number of times.  call.l is the
\* Read in progress, call.done tells that it has left its loop and
\* call.tick is the parity of its iterations.

\* what r.r.Read may return, (0, nil) always included
UpstreamReadsLive(u) == UpstreamReads(u) \cup {[k |-> 0, e |-> nil]}

InitSteps == Init /\ Len(file) <= StepLen

ReadBegin ==
  /\ ~call.busy
  /\ \E plen \in 0..MaxP :
       call' = [busy |-> TRUE, done |-> FALSE, plen |-> plen, tick |-> 0,
                l |-> ReadEntry(r, up)]
  /\ UNCHANGED <<r, file, up, last, delivered, produced, returnedErr,
                 sinceErr, hist>>

ReadIter ==
  /\ call.busy /\ ~call.done
  /\ \E s \in LoopStep(call.l, call.plen, UpstreamReadsLive(call.l.up)) :
       call' = [call EXCEPT
                  !.l = [s.l EXCEPT !.up.stalls = Min(@, MaxStall)],
                  !.done = s.done, !.tick = 1 - @]
  /\ UNCHANGED <<r, file, up, last, delivered, produced, returnedErr,
                 sinceErr, hist>>

ReadReturn ==
  /\ call.busy /\ call.done
  /\ Return(call.l, call.plen)
  /\ call' = Idle

MultistreamIdle == ~call.busy /\ Multistream

ResetIdle == ~call.busy /\ Reset

NextSteps ==
  ReadBegin \/ ReadIter \/ ReadReturn \/ MultistreamIdle \/ ResetIdle

\* an iteration can be made exactly when a Read is inside its loop
InLoop == call.busy /\ ~call.done

\* weak fairness of ReadIter, with InLoop for ENABLED <<ReadIter>>_vars:
\* LoopStep is never empty and an iteration always changes call.tick
ReadIterFair == []<>(~InLoop) \/ []<><<ReadIter>>_vars

\* the loop of a Read runs on without waiting for anything but r.r.Read,
\* which is taken to return, and a Read that left its loop returns
SpecSteps ==
  InitSteps /\ [][NextSteps]_vars /\ ReadIterFair /\ WF_vars(ReadReturn)

\* C17: every Read returns, whatever the upstream returns, (0, nil)
\* included, while a stream is decoded and while stream padding is
\* consumed.
C17_ReadTerminates == call.busy ~> ~call.busy

\* ------------------------------------------------------------------------
\* C18: between streams the decoder is reset.  xzDecRun is never invoked on
\* a decoder that has returned xzStreamEnd and was not reset since, neither
\* by a Read that goes on in multistream mode nor by a Read after a Reset
\* in single-stream mode: no Read has done it, and in every state from
\* which the next Read would invoke xzDecRun the decoder is not at its
\* stream end.  The dictionary cap is always the one given to NewReader.
C18_ResetBetweenStreams ==
  /\ ~hist.ranAfterEnd
  /\ (r.padding < 0 /\ ~r.dEOF /\ r.err = nil)
       => r.dec.sequence # "seqStreamEnd"
  /\ (r.dEOF /\ ~r.rEOF) => r.dec.sequence # "seqStreamEnd"
  /\ r.dec.dictMax = DictCap(hist.dictMax)

\* after a Reset that took effect a Read has run xzDecRun on the second
\* stream, with a cap that is not the default, and two streams are decoded
C18_Witness ==
  /\ hist.resets >= 1 /\ hist.dictMax = DictBig
  /\ last.op = "Read" /\ last.ran /\ r.err = nil
  /\ Footers(ConsumedPart) >= 2
  /\ r.dec.dictMax = DictBig

\* ------------------------------------------------------------------------
\* C19: r.padding is -1 or the number of padding bytes read.  It is >= 0
\* exactly while padding is consumed: then the decoder is at the end of a
\* real stream, the consumed input ends with that stream's footer and
\* r.padding zero bytes, and xzDecRun is not invoked; a Read invokes
\* xzDecRun only from a state with padding = -1 or after it has taken the
\* padding to its end.  Padding becomes >= 0 only in a Read that has run
\* xzDecRun to the end of a stream.  dEOF is true only with padding = -1
\* and no recorded error.
PaddingState ==
  /\ r.padding >= -1
  /\ r.padding >= 0 =>
       /\ r.dec.sequence = "seqStreamEnd"
       /\ r.padding = TrailingZeros(ConsumedPart)
       /\ Consumed > r.padding
       /\ file[Consumed - r.padding] = FTR
  /\ (r.dec.sequence = "seqStreamEnd" /\ r.padding = -1) => r.dEOF
  /\ r.dEOF => r.padding = -1 /\ r.err = nil

C19_PaddingDiscipline ==
  /\ []PaddingState
  /\ [][IsReadStep =>
          /\ (r.padding < 0 /\ r'.padding >= 0) => last'.ran
          /\ (r.padding >= 0 /\ last'.ran) =>
               Len(ConsumedPart') > Len(ConsumedPart)
          /\ (r.padding >= 0 /\ r'.padding >= 0 /\ ~last'.ran) =>
               r'.padding >= r.padding]_vars

\* a Read has returned in the middle of the padding after a stream
C19_Witness ==
  /\ last.op = "Read" /\ r.padding >= 1 /\ r.err = nil /\ ~r.dEOF
  /\ Unconsumed > 0

\* ------------------------------------------------------------------------
\* C20: the cursors stay within their limits, 0 <= buf.inPos <= len(buf.in)
\* <= bufSize and 0 <= r.outPos <= buf.outPos <= len(buf.out) = bufSize,
\* and a Read(p) returns n <= len(p) without having written more than
\* len(p) bytes; what did not fit stays in buf.out from r.outPos on.
C20_CursorBounds ==
  /\ CursorsInBounds
  /\ last.op = "Read" => ~last.over /\ 0 <= last.n /\ last.n <= MaxP
  /\ Len(delivered) + Pending = Len(produced)

\* a Read has filled p while the output buffer was full to its limit, with
\* output and input left over
C20_Witness ==
  /\ last.op = "Read" /\ last.n = MaxP /\ last.err = nil
  /\ r.buf.outPos = bufSize /\ Pending > 0
  /\ r.buf.inPos < Len(r.buf.in)

\* ------------------------------------------------------------------------
\* C21: no decoded byte is lost, duplicated or reordered.  The bytes
\* delivered by the Reads so far, followed by the bytes of buf.out from
\* r.outPos to buf.outPos, are the bytes the decoder has written, in its
\* order; and xzDecRun, which rewinds both cursors, has never been invoked
\* while r.outPos < buf.outPos.
OutputPending == SubSeq(r.buf.out, r.outPos + 1, r.buf.outPos)

C21_NoByteLost ==
  /\ delivered \o OutputPending = produced
  /\ ~hist.ranPending

\* Reads have delivered more than one buffer of output and the last one
\* stopped in the middle of buf.out
C21_Witness ==
  /\ last.op = "Read" /\ Len(delivered) > bufSize
  /\ r.outPos > 0 /\ Pending > 0 /\ last.n > 0

\* ------------------------------------------------------------------------
\* C22: a Read that returns a nil error has filled p, n = len(p), and has
\* left at least one decoded byte in the output buffer.  So a Read never
\* returns (0, nil) for a p that is not empty, and it returns n < len(p)
\* only with io.EOF or an error.
C22_NilMeansFull ==
  last.op = "Read" =>
    /\ last.err = nil => (last.full /\ Pending > 0)
    /\ ~last.full => last.err # nil
    /\ (last.n = 0 /\ last.err = nil) => last.full

\* a Read with an empty p has returned (0, nil), output pending
C22_Witness ==
  /\ last.op = "Read" /\ last.err = nil /\ last.n = 0 /\ last.full
  /\ Pending > 0 /\ r.outPos = 0

\* ------------------------------------------------------------------------
\* C23: in multistream mode Read returns io.EOF only when the upstream has
\* reported EOF and every byte received from it has been consumed,
\* buf.inPos = len(buf.in): nothing that is buffered is left out, also
\* when the upstream reports EOF in the read that returns its last bytes.
C23_EOFOnlyAtEndOfInput ==
  (/\ last.op = "Read" /\ last.err = EOF
   /\ hist.resets = 0 /\ hist.epoch = "multi") =>
    /\ r.rEOF
    /\ r.buf.inPos = Len(r.buf.in)
    /\ Unconsumed = 0

\* ------------------------------------------------------------------------
\* C24: chunking independence.  The reference is the Read of the whole
\* content by a fresh Reader whose upstream returns one byte at a time and
\* reports EOF by a separate empty read, into a p that is never filled.

\* a len(p) that no output of a content fills
RefLen == Len(RunOut) * MaxLen + 1

\* r.r.Read of an upstream that returns one byte, or (0, io.EOF) at the end
OneByOne(u) ==
  IF u.pos < Len(file) THEN {[k |-> 1, e |-> nil]} ELSE {[k |-> 0, e |-> EOF]}

\* Reader.Read with such an upstream, from l: the l it returns with
RECURSIVE RefLoop(_)
RefLoop(l) ==
  LET s == CHOOSE x \in LoopStep(l, RefLen, OneByOne(l.up)) : TRUE
  IN  IF s.done THEN s.l ELSE RefLoop(s.l)

\* the reference Read for the content, the cap and a multistream setting
Reference(multistream) ==
  RefLoop(ReadEntry(MultistreamResult(NewReader(hist.dictMax), multistream),
                    [pos |-> 0, stalls |-> 0, errs |-> 0]))

\* The Reads were all made with one multistream setting, no Reset took
\* effect and every upstream read returned bytes or io.EOF.
FixedSetting ==
  /\ hist.resets = 0 /\ hist.epoch \in {"multi", "single"}
  /\ QuietUpstream

\* For a given content and multistream setting, the bytes delivered and the
\* status the Reads end with, io.EOF or an error, are those of the
\* reference, however the upstream splits the content and whether it
\* reports EOF with the last bytes or alone.
C24_ChunkingIndependence ==
  (FixedSetting /\ last.op = "Read" /\ last.err # nil) =>
    LET ref == Reference(hist.epoch = "multi")
    IN  last.err = ref.err /\ delivered = ref.p

\* ------------------------------------------------------------------------
\* C25: a Reset before the current stream has finished, dEOF false, also
\* after a recorded error, returns nil and changes nothing: the multistream
\* flag, the recorded error, the cursors, the padding count and the decoder
\* are as before, and so are the upstream and the bytes delivered.
C25_EarlyResetNoOp ==
  /\ [](~r.dEOF => ResetResult(r) = [r |-> r, err |-> nil])
  /\ [][(IsResetStep /\ ~r.dEOF) =>
          /\ last'.err = nil
          /\ r' = r
          /\ r'.err = r.err /\ r'.multistream = r.multistream
          /\ up' = up /\ delivered' = delivered /\ hist' = hist]_vars

\* Reset has returned nil in single-stream mode after a recorded error;
\* the error is still recorded and the mode is still single-stream
C25_Witness ==
  /\ last.op = "Reset" /\ last.err = nil /\ ~r.dEOF
  /\ r.err \in DecoderErrors /\ ~r.multistream
  /\ hist.resets = 0

\* ------------------------------------------------------------------------
\* The Delta decoder (xzDecDeltaRun) as Reader.decode runs it.  r is [s, b,
\* outPos]: the xzDecDelta, the xzBuf and the Reader's r.outPos.
\* hist.distance is the distance the decoder was created with, hist.raw
\* the bytes the chained decoder has written so far, and hist.mid tells
\* that a call that started at an outPos above 0 has decoded bytes;
\* produced is what the calls left in buf.out from their starting outPos
\* on, in order; last tells what the last call was given by the chained
\* decoder, what it returned, the outPos it started at and whether it left
\* the bytes before that as they were.

Distances == {1, 2, 256}
DeltaBytes == {1, 200}
ChainRets == {xzOK, xzStreamEnd}

\* xzDecDeltaRun, the loop from index i (counted from 0) to b.outPos
RECURSIVE DeltaLoop(_, _, _)
DeltaLoop(s, b, i) ==
  IF i >= b.outPos THEN [s |-> s, b |-> b]
  ELSE LET x == DeltaStep(s, b.out[i + 1])
       IN  DeltaLoop(x.s, [b EXCEPT !.out[i + 1] = x.tmp], i + 1)

\* chain(b) when the chained decoder writes the bytes w
ChainWrites(b, w) ==
  [b EXCEPT !.out = [i \in 1..Len(b.out) |->
                       IF i > b.outPos /\ i <= b.outPos + Len(w)
                         THEN w[i - b.outPos] ELSE b.out[i]],
            !.outPos = @ + Len(w)]

\* xzDecDeltaRun(s, b, chain) when chain writes w and returns ret: the
\* result is [s, b, ret]
xzDecDeltaRun(s, b, w, ret) ==
  LET outStart == b.outPos
      x == DeltaLoop(s, ChainWrites(b, w), outStart)
  IN  [s |-> x.s, b |-> x.b, ret |-> ret]

\* the bytes the chained decoder may write as byte n + 1 .. n + k of the
\* raw stream: free among DeltaBytes up to FreeLen, 1 from there on
RECURSIVE ChainOutputs(_, _)
ChainOutputs(n, k) ==
  IF k = 0 THEN {<< >>}
  ELSE {<<c>> \o w : c \in (IF n < FreeLen THEN DeltaBytes ELSE {1}),
                      w \in ChainOutputs(n + 1, k - 1)}

InitDelta ==
  /\ hist \in [distance : Distances, raw : {<< >>}, mid : {FALSE}]
  /\ r = [s |-> xzDecDeltaCreate(hist.distance),
          b |-> [out |-> [i \in 1..DeltaBufSize |-> 0], outPos |-> 0],
          outPos |-> 0]
  /\ produced = << >>
  /\ last = [op |-> "xzDecDeltaCreate", chain |-> xzOK, ret |-> xzOK,
             start |-> 0, kept |-> TRUE]
  /\ file = << >> /\ up = [pos |-> 0, stalls |-> 0, errs |-> 0]
  /\ delivered = << >> /\ returnedErr = nil /\ sinceErr = 0
  /\ call = Idle

\* what the chained decoder may do in a call when n bytes are written and
\* the buffer has room for k more: [k, ret], the number of bytes it writes
\* and what it returns.  Up to SplitLen bytes it writes any number and
\* returns either status; from there on it fills the buffer and returns
\* xzStreamEnd with the last byte of the stream.
ChainCalls(n, room) ==
  IF n < SplitLen
  THEN {[k |-> k, ret |-> ret] : k \in 0..room, ret \in ChainRets}
  ELSE {[k |-> room,
         ret |-> IF n + room = MaxDeltaLen THEN xzStreamEnd ELSE xzOK]}

\* Reader.decode, "r.buf.outPos = 0; r.outPos = 0", before the decoder runs
RewindOutput(rd) == [rd EXCEPT !.b.outPos = 0, !.outPos = 0]

\* The output of the blocks before the Delta block that the same decoder
\* run has written to buf.out when it calls xzDecDeltaRun for the first
\* time: pre bytes.
EarlierOutput(b, pre) == ChainWrites(b, [i \in 1..pre |-> LitA])

\* the bytes that may be in buf.out before the block: none once the Delta
\* decoder has been called, since each later run begins inside the block
EarlierLens ==
  IF last.op = "xzDecDeltaCreate" THEN 0..(DeltaBufSize - 1) ELSE {0}

\* One decoder run inside a Delta block, as Reader.decode makes it: the
\* cursors are rewound, then the run calls xzDecDeltaRun once.  Read gets
\* here only when all the output is copied, r.outPos = buf.outPos.
DeltaRun ==
  /\ r.outPos = r.b.outPos
  /\ \E pre \in EarlierLens :
       LET b0 == EarlierOutput(RewindOutput(r).b, pre)
       IN  \E c \in ChainCalls(Len(hist.raw),
                                Min(DeltaBufSize - b0.outPos,
                                    MaxDeltaLen - Len(hist.raw))) :
             \E w \in ChainOutputs(Len(hist.raw), c.k) :
               LET x == xzDecDeltaRun(r.s, b0, w, c.ret)
               IN  /\ r' = [s |-> x.s, b |-> x.b, outPos |-> 0]
                   /\ hist' = [hist EXCEPT
                                 !.raw = @ \o w,
                                 !.mid = @ \/ (b0.outPos > 0 /\ c.k > 0)]
                   /\ produced' = produced
                        \o SubSeq(x.b.out, b0.outPos + 1, x.b.outPos)
                   /\ last' = [op |-> "xzDecDeltaRun", chain |-> c.ret,
                                ret |-> x.ret, start |-> b0.outPos,
                                kept |-> \A i \in 1..b0.outPos :
                                           x.b.out[i] = b0.out[i]]
  /\ UNCHANGED <<file, up, delivered, returnedErr, sinceErr, call>>

\* Read, "copy r.buf.out -> p": some of the pending output is copied
DeltaCopy ==
  /\ r.outPos < r.b.outPos
  /\ \E k \in 1..(r.b.outPos - r.outPos) : r' = [r EXCEPT !.outPos = @ + k]
  /\ UNCHANGED <<file, up, last, delivered, produced, returnedErr,
                 sinceErr, hist, call>>

NextDelta == DeltaRun \/ DeltaCopy

SpecDelta == InitDelta /\ [][NextDelta]_vars

\* C26: each byte the chained decoder writes is replaced by that byte plus
\* the decoded byte distance positions earlier, mod 256, 0 standing for the
\* positions before the start.  This holds for the whole output however it
\* is split into calls.  A call leaves the bytes of buf.out before its
\* starting outPos as they are, moves no cursor itself and returns what
\* the chained decoder returned.
DeltaDecoded ==
  /\ Len(produced) = Len(hist.raw)
  /\ \A i \in 1..Len(produced) :
       produced[i] =
         (hist.raw[i] + (IF i > hist.distance
                           THEN produced[i - hist.distance] ELSE 0)) % 256

C26_DeltaRun ==
  /\ [](DeltaDecoded /\ last.ret = last.chain /\ last.kept)
  /\ [][(r'.b # r.b \/ r'.s # r.s) =>
          /\ r'.b.outPos - last'.start = Len(hist'.raw) - Len(hist.raw)
          /\ r'.s.distance = r.s.distance]_vars

\* more than 256 bytes are decoded with distance 256, so that a byte has
\* been added to the one 256 positions earlier, across many calls, the
\* first of which started behind the output of an earlier block
C26_Witness ==
  /\ last.op = "xzDecDeltaRun" /\ hist.distance = 256
  /\ Len(produced) > 256 /\ hist.raw[1] = 200
  /\ produced[257] = 201 /\ last.ret = xzStreamEnd
  /\ hist.mid /\ last.kept

\* ------------------------------------------------------------------------
\* The range coder on its own.  A 32-bit value is [hi, lo], two 16-bit
\* halves; an operation gives [v, wrap], the value mod 2^32 and whether the
\* exact result was outside 0 .. 2^32 - 1.  r is [range, prob]; last tells
\* what the last decode was: its bound, the range before it, the bytes its
\* normalization read and whether an operation on range wrapped.
\* hist.steps counts the decodes and hist.tail is the decode repeated
\* between the free ones.

rcBitModelTotal == 2048
Half == 65536

U32(hi, lo) == [hi |-> hi, lo |-> lo]
Less32(a, b) == a.hi < b.hi \/ (a.hi = b.hi /\ a.lo < b.lo)

\* x << 8
Shl8(x) ==
  LET h == x.hi * 256 + x.lo \div 256
  IN  [v |-> U32(h % Half, (x.lo % 256) * 256), wrap |-> h >= Half]

\* x >> 1
Shr1(x) == U32(x.hi \div 2, (x.hi % 2) * 32768 + x.lo \div 2)

\* (x >> 11) * p
BoundOf(x, p) ==
  LET qh == x.hi \div 2048
      ql == (x.hi % 2048) * 32 + x.lo \div 2048
      l == ql * p
      h == qh * p + l \div Half
  IN  [v |-> U32(h % Half, l % Half), wrap |-> h >= Half]

\* a - b
Sub32(a, b) ==
  LET l == a.lo - b.lo
      h == a.hi - b.hi - (IF l < 0 THEN 1 ELSE 0)
  IN  [v |-> U32(h % Half, l % Half), wrap |-> h < 0]

\* the range coder after its initialization, for a probability at its
\* initial value
rcReset == [range |-> U32(65535, 65535), prob |-> rcBitModelTotal \div 2]

\* normalization: one byte is read when range < 2^24; the result
\* is [range, reads, wrap]
rcNormalize(range) ==
  IF range.hi < 256
  THEN LET x == Shl8(range) IN [range |-> x.v, reads |-> 1, wrap |-> x.wrap]
  ELSE [range |-> range, reads |-> 0, wrap |-> FALSE]

\* a probability update that moves by 1/16
ProbUpdate_Move4(p, bit) ==
  IF bit = 0 THEN p + (rcBitModelTotal - p) \div 16
  ELSE p - p \div 16

\* the probability after a decoded bit: it moves by 1/32 (shift by 5)
ProbUpdate(p, bit) ==
  IF bit = 0 THEN p + (rcBitModelTotal - p) \div 32
  ELSE p - p \div 32

\* bit decode with probability st.prob when code < bound (bit 0) or not
\* (bit 1): the result is [st, last]
rcBit(st, bit) ==
  LET b == BoundOf(st.range, st.prob)
      d == Sub32(st.range, b.v)
      n == rcNormalize(IF bit = 0 THEN b.v ELSE d.v)
  IN  [st |-> [range |-> n.range, prob |-> ProbUpdate(st.prob, bit)],
       last |-> [op |-> IF bit = 0 THEN "rcBit0" ELSE "rcBit1",
                 bound |-> b.v, before |-> st.range, reads |-> n.reads,
                 wrap |-> b.wrap \/ (bit = 1 /\ d.wrap) \/ n.wrap]]

\* decode of one direct bit: range >> 1, then normalization
rcDirect(st) ==
  LET n == rcNormalize(Shr1(st.range))
  IN  [st |-> [st EXCEPT !.range = n.range],
       last |-> [op |-> "rcDirect", bound |-> Shr1(st.range),
                 before |-> st.range, reads |-> n.reads, wrap |-> n.wrap]]

RcOps == {"rcBit0", "rcBit1", "rcDirect"}

\* the decode op may come next
MayDecode(op) ==
  /\ hist.steps < MaxBits
  /\ hist.steps < FreeBits \/ hist.steps >= TailEnd \/ op = hist.tail

InitRC ==
  /\ r = rcReset
  /\ hist \in [steps : {0}, tail : RcOps]
  /\ last = [op |-> "rcReset", bound |-> U32(0, 1), before |-> r.range,
             reads |-> 0, wrap |-> FALSE]
  /\ file = << >> /\ up = [pos |-> 0, stalls |-> 0, errs |-> 0]
  /\ delivered = << >> /\ produced = << >>
  /\ returnedErr = nil /\ sinceErr = 0
  /\ call = Idle

RcBitStep ==
  \E bit \in {0, 1} :
    LET x == rcBit(r, bit)
    IN  /\ MayDecode(x.last.op)
        /\ r' = x.st /\ last' = x.last
        /\ hist' = [hist EXCEPT !.steps = @ + 1]
        /\ UNCHANGED <<file, up, delivered, produced, returnedErr, sinceErr,
                       call>>

RcDirectStep ==
  LET x == rcDirect(r)
  IN  /\ MayDecode("rcDirect")
      /\ r' = x.st /\ last' = x.last
      /\ hist' = [hist EXCEPT !.steps = @ + 1]
      /\ UNCHANGED <<file, up, delivered, produced, returnedErr, sinceErr,
                     call>>

NextRC == RcBitStep \/ RcDirectStep

SpecRC == InitRC /\ [][NextRC]_vars

\* C27: from probability 1024 and range 0xFFFFFFFF, after any sequence of
\* bit decodes and direct-bit decodes the probability is within 31 .. 2017,
\* never 0 or 2048; the bound of a bit decode is above 0 and below the
\* range it was computed from; a normalization reads at most one byte and
\* leaves range >= 2^24; and no operation on range has wrapped.
C27_RangeCoderBounds ==
  /\ 31 <= r.prob /\ r.prob <= 2017
  /\ last.op \in {"rcBit0", "rcBit1"} =>
       (Less32(U32(0, 0), last.bound) /\ Less32(last.bound, last.before))
  /\ last.reads <= 1
  /\ ~Less32(r.range, U32(256, 0))
  /\ ~last.wrap

\* the probability was at its highest, 2017, and a 1 bit was decoded: the
\* range went down to range - bound, a byte was read to bring it back
\* above 2^24, and the probability is 2017 - (2017 >> 5)
C27_Witness ==
  /\ last.op = "rcBit1" /\ r.prob = 1954 /\ last.reads = 1
  /\ hist.steps > TailEnd /\ hist.tail = "rcBit0"

====
